---- MODULE Spec2Model ----
(***************************************************************************)
(* A model of webui script ai_compatibility.py: the Streamlit page that    *)
(* selects an LLM provider, edits and saves its credentials in the config  *)
(* store, edits the video subject / script / keywords held in the session  *)
(* state, translates labels with tr and validates a config payload.        *)
(*                                                                         *)
(* One run of the script (a render) is one action.  In the specification   *)
(* with two sessions the Save handler is split into its statements, since  *)
(* the sessions' script threads share config.app without a lock.           *)
(*                                                                         *)
(* Strings that the script formats and parses (locale codes, the language  *)
(* selector's options) are sequences of characters; every other string is  *)
(* a TLA+ string.  A Python dict is a function whose DOMAIN is the set of  *)
(* keys present.                                                           *)
(***************************************************************************)
EXTENDS Naturals, Sequences, FiniteSets, TLC

VARIABLES
    locales,        \* utils.load_locales(i18n_dir): the locale table, in dict order
    app,            \* config.app
    ui,             \* config.ui
    disk,           \* the persisted config file, as config.save() last wrote it
    session_state,  \* st.session_state of each session
    view,           \* what each session's last render computed and displayed
    pc,             \* each session's position in the Save handler
    job,            \* the Save handler's locals (llm_provider, the five form values)
    hist,           \* history of each session's Saves (ghost)
    probe           \* argument and result of a call of tr or validate_config

vars == <<locales, app, ui, disk, session_state, view, pc, job, hist, probe>>

-----------------------------------------------------------------------------
(* Python dicts *)

Get(d, k, default) == IF k \in DOMAIN d THEN d[k] ELSE default

Put(d, k, v) == [x \in DOMAIN d \cup {k} |-> IF x = k THEN v ELSE d[x]]

\* d.get(k) as an option: <<>> when the key is absent, <<v>> when present.
Lookup(d, k) == IF k \in DOMAIN d THEN <<d[k]>> ELSE <<>>

EmptyDict == [x \in {} |-> ""]

-----------------------------------------------------------------------------
(* Strings as sequences of characters: str.split(sep)[0] and str.strip() *)

Sep == <<" ", "-", " ">>

NoneText == <<"N", "o", "n", "e">>

OccursAt(str, sep, i) ==
    /\ i + Len(sep) - 1 <= Len(str)
    /\ SubSeq(str, i, i + Len(sep) - 1) = sep

\* str.split(sep)[0]: the text before the first occurrence of sep.
SplitFirst(str, sep) ==
    LET hits == {i \in 1..Len(str) : OccursAt(str, sep, i)}
    IN  IF hits = {} THEN str
        ELSE LET first == CHOOSE i \in hits : \A j \in hits : i <= j
             IN  SubSeq(str, 1, first - 1)

\* str.strip(): leading and trailing blanks removed.
Strip(str) ==
    LET solid == {i \in 1..Len(str) : str[i] # " "}
    IN  IF solid = {} THEN << >>
        ELSE LET lo == CHOOSE i \in solid : \A j \in solid : i <= j
                 hi == CHOOSE i \in solid : \A j \in solid : j <= i
             IN  SubSeq(str, lo, hi)

-----------------------------------------------------------------------------
(* The locale table *)

zh == <<"z", "h">>
en == <<"e", "n">>
zh_CN_spaced == <<"z", "h", " ", "-", " ", "C", "N">>
en_US == <<"e", "n", "-", "U", "S">>

\* utils.get_system_locale()
system_locale == en_US

TrKeys == {"Save", "Language", "Get Help", "Video Script"}

Entry(code, hasLanguage, language, hasTranslation, translation) ==
    [code |-> code, hasLanguage |-> hasLanguage, Language |-> language,
     hasTranslation |-> hasTranslation, Translation |-> translation]

zhTranslation == [k \in {"Save", "Language"} |-> IF k = "Save" THEN "zh:Save" ELSE "zh:Language"]
enTranslation == [k \in {"Save", "Get Help"} |-> IF k = "Save" THEN "en:Save" ELSE "en:Get Help"]

\* Locale tables the i18n directory can hold: none; zh and en; one file without
\* its Translation and Language entries; a file named "zh - CN".
LocaleTables ==
    { << >>,
      << Entry(zh, TRUE, <<"C", "N">>, TRUE, zhTranslation),
         Entry(en, TRUE, <<"E", "N">>, TRUE, enTranslation) >>,
      << Entry(en, FALSE, << >>, FALSE, EmptyDict),
         Entry(zh, TRUE, <<"C", " ", "-", " ", "N">>, TRUE, zhTranslation) >>,
      << Entry(zh_CN_spaced, TRUE, <<"C", "N">>, TRUE, zhTranslation),
         Entry(en, TRUE, <<"E", "N">>, TRUE, enTranslation) >> }

LocaleCodes(lcs) == {lcs[i].code : i \in 1..Len(lcs)}

\* locales.get(code, {}).get("Translation", {})
TranslationOf(lcs, code) ==
    LET hits == {i \in 1..Len(lcs) : lcs[i].code = code}
    IN  IF hits = {} THEN EmptyDict
        ELSE LET e == lcs[CHOOSE i \in hits : TRUE]
             IN  IF e.hasTranslation THEN e.Translation ELSE EmptyDict

Sessions == {1, 2}

\* tr(key), in session s
trMissingKeyRaises(s, key) ==
    LET table == TranslationOf(locales, session_state[s]["ui_language"])
    IN  IF key \in DOMAIN table THEN table[key] ELSE "KeyError"

tr(s, key) ==
    LET table == TranslationOf(locales, session_state[s]["ui_language"])
    IN  Get(table, key, key)

\* f"{code} - {locales[code].get('Language')}"
DisplayLanguage(e) ==
    e.code \o Sep \o (IF e.hasLanguage THEN e.Language ELSE NoneText)

-----------------------------------------------------------------------------
(* The settings panel: provider selector, credential form, Save *)

llm_providers ==
    << "OpenAI", "Moonshot", "Azure", "Qwen", "DeepSeek", "Gemini",
       "Ollama", "G4f", "OneAPI", "Cloudflare", "ERNIE" >>

\* str.lower() on the provider names the script handles
Lower(x) ==
    CASE x = "OpenAI"     -> "openai"
      [] x = "Moonshot"   -> "moonshot"
      [] x = "Azure"      -> "azure"
      [] x = "Qwen"       -> "qwen"
      [] x = "DeepSeek"   -> "deepseek"
      [] x = "Gemini"     -> "gemini"
      [] x = "Ollama"     -> "ollama"
      [] x = "G4f"        -> "g4f"
      [] x = "OneAPI"     -> "oneapi"
      [] x = "Cloudflare" -> "cloudflare"
      [] x = "ERNIE"      -> "ernie"
      [] OTHER            -> x

Providers == {Lower(llm_providers[i]) : i \in 1..Len(llm_providers)}

Fields == {"api_key", "secret_key", "base_url", "model_name", "account_id"}

\* f"{llm_provider}_api_key" and its four siblings
KeyWithoutProvider(p, f) == f

Key(p, f) == p \o "_" \o f

CredentialKeys(p) == {Key(p, f) : f \in Fields}

\* The index the provider selector starts at: the saved provider's, else 0
\* (indices are 1-based here).
SavedProviderIndexCaseSensitive(appv) ==
    LET saved == Lower(Get(appv, "llm_provider", "OpenAI"))
        hits  == {i \in 1..Len(llm_providers) : llm_providers[i] = saved}
    IN  IF hits = {} THEN 1 ELSE CHOOSE i \in hits : \A j \in hits : i <= j

SavedProviderIndex(appv) ==
    LET saved == Lower(Get(appv, "llm_provider", "OpenAI"))
        hits  == {i \in 1..Len(llm_providers) : Lower(llm_providers[i]) = saved}
    IN  IF hits = {} THEN 1 ELSE CHOOSE i \in hits : \A j \in hits : i <= j

\* st.selectbox(options, index): the option the user picked (pick is its
\* 1-based position), else the option at index.  pick = 0: no interaction.
NoPick == 0

SelectBox(options, index, pick) ==
    IF Len(options) = 0 THEN << >>
    ELSE options[IF pick # NoPick THEN pick ELSE index]

\* st.text_input(value=...): what the user typed, else value.
NoEdit == "<unedited>"

TextInput(value, typed) == IF typed = NoEdit THEN value ELSE typed

\* The five values read from the config store for provider p, after the
\* provider's defaulting block.
SavedFields(appv, p) == [f \in Fields |-> Get(appv, Key(p, f), "")]

Seed(appv, p) ==
    LET saved == SavedFields(appv, p)
    IN  CASE p = "ollama" ->
               [saved EXCEPT
                  !["model_name"] = IF @ = "" THEN "qwen:7b" ELSE @,
                  !["base_url"]   = IF @ = "" THEN "http://localhost:11434/v1" ELSE @]
          [] p = "openai" ->
               [saved EXCEPT
                  !["api_key"] = IF @ = "" THEN Get(appv, "openai_api_key", "") ELSE @]
          [] p = "azure" ->
               [saved EXCEPT
                  !["api_key"]    = IF @ = "" THEN Get(appv, "azure_api_key", "") ELSE @,
                  !["base_url"]   = IF @ = "" THEN Get(appv, "azure_base_url", "") ELSE @,
                  !["model_name"] = IF @ = "" THEN Get(appv, "azure_model_name", "") ELSE @]
          [] p = "moonshot" ->
               [saved EXCEPT
                  !["base_url"]   = IF @ = "" THEN Get(appv, "moonshot_base_url", "") ELSE @,
                  !["model_name"] = IF @ = "" THEN Get(appv, "moonshot_model_name", "") ELSE @]
          [] OTHER -> saved

\* The help text shown for the provider; "" shows none.
Tips(p) ==
    CASE p = "ollama"   -> "##### Ollama"
      [] p = "openai"   -> "##### OpenAI"
      [] p = "azure"    -> "##### Azure"
      [] p = "moonshot" -> "##### Moonshot"
      [] OTHER          -> ""

\* One assignment of the Save handler: config.app[f"{llm_provider}_<f>"] = value
Assign(appv, p, f, formv) == Put(appv, Key(p, f), formv[f])

\* The five assignments of the Save handler, in the script's order.
SaveOrder == << "api_key", "secret_key", "base_url", "model_name", "account_id" >>

SaveHandlerAlsoOpenAIKey(appv, p, formv) ==
    LET a1 == Assign(appv, p, SaveOrder[1], formv)
        a2 == Assign(a1, p, SaveOrder[2], formv)
        a3 == Assign(a2, p, SaveOrder[3], formv)
        a4 == Assign(a3, p, SaveOrder[4], formv)
        a5 == Assign(a4, p, SaveOrder[5], formv)
    IN  Put(a5, "openai_api_key", formv["api_key"])

SaveHandler(appv, p, formv) ==
    LET a1 == Assign(appv, p, SaveOrder[1], formv)
        a2 == Assign(a1, p, SaveOrder[2], formv)
        a3 == Assign(a2, p, SaveOrder[3], formv)
        a4 == Assign(a3, p, SaveOrder[4], formv)
    IN  Assign(a4, p, SaveOrder[5], formv)

\* config.save(): the whole config store is written to the config file.
ConfigSave(appv, uiv) == [app |-> appv, ui |-> uiv]

\* st.success(tr("Configuration saved!")) follows config.save() unconditionally.
SavedMessageOnlyIfStillStored(appv, p, formv) ==
    \A f \in Fields : Get(appv, Key(p, f), "") = formv[f]

SavedMessage(appv, p, formv) == TRUE

-----------------------------------------------------------------------------
(* Session state, the language selector, the video widgets, the buttons *)

\* The "not in st.session_state" block at the top of the script.
InitSessionWithoutTerms(ssv, uiv) ==
    LET s1 == IF "video_subject" \in DOMAIN ssv THEN ssv ELSE Put(ssv, "video_subject", "")
        s2 == IF "video_script" \in DOMAIN s1 THEN s1 ELSE Put(s1, "video_script", "")
    IN  IF "ui_language" \in DOMAIN s2 THEN s2
        ELSE Put(s2, "ui_language", Get(uiv, "language", system_locale))

InitSession(ssv, uiv) ==
    LET s1 == IF "video_subject" \in DOMAIN ssv THEN ssv ELSE Put(ssv, "video_subject", "")
        s2 == IF "video_script" \in DOMAIN s1 THEN s1 ELSE Put(s1, "video_script", "")
        s3 == IF "video_terms" \in DOMAIN s2 THEN s2 ELSE Put(s2, "video_terms", "")
    IN  IF "ui_language" \in DOMAIN s3 THEN s3
        ELSE Put(s3, "ui_language", Get(uiv, "language", system_locale))

\* selected_index of the language selector (1-based): the position of the
\* session's ui_language in the locale table, else the first.
SelectedIndex(lcs, lang) ==
    LET hits == {i \in 1..Len(lcs) : lcs[i].code = lang}
    IN  IF hits = {} THEN 1 ELSE CHOOSE i \in hits : \A j \in hits : j <= i

display_languages(lcs) == [i \in 1..Len(lcs) |-> DisplayLanguage(lcs[i])]

\* selected_language.split(" - ")[0].strip()
CodeOf(selected_language) == Strip(SplitFirst(selected_language, Sep))

\* The three guarded widget assignments: each field keeps its value unless the
\* user typed into it.
VideoKeys == {"video_subject", "video_script", "video_terms"}

VideoWidgets(ssv, input) ==
    [k \in DOMAIN ssv |->
        IF k \in VideoKeys THEN TextInput(ssv[k], input[k]) ELSE ssv[k]]

\* The buttons of the three columns.
ButtonsOnSubject(ssv) ==
    (IF Get(ssv, "video_subject", "") # "" THEN {"generate_video"} ELSE {})
    \cup (IF Get(ssv, "video_subject", "") # "" THEN {"update_script"} ELSE {})
    \cup {"cancel"}

Buttons(ssv) ==
    (IF Get(ssv, "video_script", "") # "" THEN {"generate_video"} ELSE {})
    \cup (IF Get(ssv, "video_script", "") # "" THEN {"update_script"} ELSE {})
    \cup {"cancel"}

-----------------------------------------------------------------------------
(* One run of the script *)

Blank == [f \in Fields |-> ""]

Untouched == [f \in Fields |-> NoEdit]

\* A script run's input: the user's interaction, if any.
NoInput ==
    [lang |-> NoPick, provider |-> NoPick, typed |-> Untouched, save |-> FALSE,
     video_subject |-> NoEdit, video_script |-> NoEdit, video_terms |-> NoEdit]

\* The script from its top to the Save button: session initialisation, and,
\* unless hide_config, the language selector, the hide-log checkbox at its
\* default, the provider selector and the credential form.
Prefix(s, input) ==
    LET ss0   == InitSession(session_state[s], ui)
        panel == ~ Get(app, "hide_config", FALSE)
        sel   == SelectBox(display_languages(locales),
                           SelectedIndex(locales, ss0["ui_language"]), input.lang)
        code  == CodeOf(sel)
        p     == Lower(SelectBox(llm_providers, SavedProviderIndex(app), input.provider))
        app1  == Put(app, "llm_provider", p)
        seed  == Seed(app1, p)
    IN  IF panel
        THEN [panel |-> TRUE,
              session_state |-> IF sel # << >> THEN Put(ss0, "ui_language", code) ELSE ss0,
              ui  |-> Put(IF sel # << >> THEN Put(ui, "language", code) ELSE ui,
                          "hide_log", Get(app, "hide_log", FALSE)),
              app |-> app1,
              llm_provider |-> p,
              seed |-> seed,
              form |-> [f \in Fields |-> TextInput(seed[f], input.typed[f])],
              tips |-> Tips(p),
              save |-> input.save]
        ELSE [panel |-> FALSE, session_state |-> ss0, ui |-> ui, app |-> app,
              llm_provider |-> Lower(Get(app, "llm_provider", "")),
              seed |-> Blank, form |-> Blank, tips |-> "", save |-> FALSE]

\* The script after the settings panel: the video widgets and the buttons.
Suffix(ssv, input) ==
    LET ss2 == VideoWidgets(ssv, input)
    IN  [session_state |-> ss2, buttons |-> Buttons(ss2)]

View(r, t, kind, success) ==
    [rendered |-> TRUE, panel |-> r.panel, llm_provider |-> r.llm_provider,
     seed |-> r.seed, form |-> r.form, tips |-> r.tips, buttons |-> t.buttons,
     success |-> success, input |-> kind]

\* What the session has saved so far (ghost): the form of its last Save on
\* openai, whether it saved on azure since, and its last Save.
History(h, r, saved) ==
    [h EXCEPT
       !.openai = IF saved /\ r.llm_provider = "openai" THEN << r.form >> ELSE @,
       !.azure  = IF saved /\ r.llm_provider = "openai" THEN FALSE
                  ELSE IF saved /\ r.llm_provider = "azure" THEN TRUE ELSE @,
       !.last   = IF saved THEN << [llm_provider |-> r.llm_provider, form |-> r.form] >>
                  ELSE @]

\* A whole run of the script in session s, Save handler included.
Render(s, input, kind) ==
    /\ pc[s] = "idle"
    /\ LET r     == Prefix(s, input)
           t     == Suffix(r.session_state, input)
           app2  == IF r.save THEN SaveHandler(r.app, r.llm_provider, r.form) ELSE r.app
       IN  /\ app' = app2
           /\ ui' = r.ui
           /\ disk' = IF r.save THEN ConfigSave(app2, r.ui) ELSE disk
           /\ session_state' = [session_state EXCEPT ![s] = t.session_state]
           /\ view' = [view EXCEPT ![s] =
                         View(r, t, kind,
                              r.save /\ SavedMessage(app2, r.llm_provider, r.form))]
           /\ hist' = [hist EXCEPT ![s] = History(@, r, r.save)]
    /\ UNCHANGED <<locales, pc, job, probe>>

-----------------------------------------------------------------------------
(* Initial states *)

NoView ==
    [rendered |-> FALSE, panel |-> FALSE, llm_provider |-> "", seed |-> Blank,
     form |-> Blank, tips |-> "", buttons |-> {}, success |-> FALSE, input |-> "none"]

NoHistory == [openai |-> << >>, azure |-> FALSE, last |-> << >>, presses |-> 0]

NoJob == [llm_provider |-> "", form |-> Blank]

NoProbe == [call |-> "none"]

\* config.app as loaded: empty; a saved provider with one saved field; the
\* settings panel hidden.
InitApps ==
    { EmptyDict,
      ("llm_provider" :> "Moonshot") @@ ("moonshot_api_key" :> "k0"),
      ("hide_config" :> TRUE) }

\* config.ui as loaded: no language, or a saved one.
InitUis == { EmptyDict, ("language" :> en) }

Loaded(lcs, appv, uiv) ==
    /\ locales = lcs
    /\ app = appv
    /\ ui = uiv
    /\ disk = ConfigSave(appv, uiv)

Idle ==
    /\ view = [s \in Sessions |-> NoView]
    /\ pc = [s \in Sessions |-> "idle"]
    /\ job = [s \in Sessions |-> NoJob]
    /\ hist = [s \in Sessions |-> NoHistory]

\* The config loaded, every session fresh.
Start(lcs, appv, uiv) ==
    /\ Loaded(lcs, appv, uiv)
    /\ Idle
    /\ session_state = [s \in Sessions |-> EmptyDict]
    /\ probe = NoProbe

SettingsTable == CHOOSE lcs \in LocaleTables : LocaleCodes(lcs) = {zh, en} /\ lcs[1].hasLanguage

Init == \E appv \in InitApps : Start(SettingsTable, appv, EmptyDict)

InitEditor ==
    \E lcs \in LocaleTables, appv \in {EmptyDict, "hide_config" :> TRUE}, uiv \in InitUis :
        Start(lcs, appv, uiv)

-----------------------------------------------------------------------------
(* The user's interactions, each followed by a run of the script *)

\* A session's first run: no widget exists yet, so there is no input.
FirstRender(s) ==
    /\ ~ view[s].rendered
    /\ Render(s, NoInput, "first")

\* A run with no change of any widget.
Rerun(s) ==
    /\ view[s].rendered
    /\ Render(s, NoInput, "rerun")

PickedProviders == {"OpenAI", "Azure", "Ollama"}

SelectProvider(s, i) ==
    /\ view[s].rendered /\ view[s].panel
    /\ llm_providers[i] \in PickedProviders
    /\ Render(s, [NoInput EXCEPT !.provider = i], "provider")

SelectLanguage(s, i) ==
    /\ view[s].rendered /\ view[s].panel
    /\ i \in 1..Len(locales)
    /\ Render(s, [NoInput EXCEPT !.lang = i], "language")

\* What the user has typed into the five fields when pressing Save.
K1 == [f \in Fields |-> "1:" \o f]
K2 == [f \in Fields |-> "2:" \o f]

TypedForms == { Untouched, K1, K2 }

PressSave(s, typed) ==
    /\ view[s].rendered /\ view[s].panel
    /\ Render(s, [NoInput EXCEPT !.typed = typed, !.save = TRUE], "save")

VideoTexts == {"", "text"}

EditVideo(s, k, text) ==
    /\ view[s].rendered
    /\ Render(s, [NoInput EXCEPT ![k] = text], "video")

\* One session using the settings panel.
Next ==
    \/ FirstRender(1)
    \/ Rerun(1)
    \/ \E i \in 1..Len(llm_providers) : SelectProvider(1, i)
    \/ \E typed \in TypedForms : PressSave(1, typed)

Spec == Init /\ [][Next]_vars

\* One session using the language selector and the video widgets.
NextEditor ==
    \/ FirstRender(1)
    \/ Rerun(1)
    \/ \E i \in 1..2 : SelectLanguage(1, i)
    \/ \E k \in VideoKeys, text \in VideoTexts : EditVideo(1, k, text)

SpecEditor == InitEditor /\ [][NextEditor]_vars

-----------------------------------------------------------------------------
(* Two sessions: their script threads share config.app, config.ui and the
   config file, and nothing serialises them.  A run that presses Save is
   taken statement by statement from the Save handler on. *)

MaxSaves == 2

\* Each session's user types values of their own.
ConcForm(s) == IF s = 1 THEN K1 ELSE K2

\* The provider a session switches to from the default one.
ConcProviders == {"Azure"}

NextField(f) ==
    LET i == CHOOSE j \in 1..Len(SaveOrder) : SaveOrder[j] = f
    IN  IF i < Len(SaveOrder) THEN SaveOrder[i + 1] ELSE "config.save"

\* The run up to the Save button, which returns True.
BeginSave(s, typed) ==
    /\ pc[s] = "idle"
    /\ view[s].rendered /\ view[s].panel
    /\ hist[1].presses + hist[2].presses < MaxSaves
    /\ LET r == Prefix(s, [NoInput EXCEPT !.typed = typed, !.save = TRUE])
       IN  /\ app' = r.app
           /\ ui' = r.ui
           /\ session_state' = [session_state EXCEPT ![s] = r.session_state]
           /\ view' = [view EXCEPT ![s] =
                         View(r, [buttons |-> {}], "save", FALSE)]
           /\ job' = [job EXCEPT ![s] = [llm_provider |-> r.llm_provider, form |-> r.form]]
           /\ hist' = [hist EXCEPT ![s].presses = @ + 1]
           /\ pc' = [pc EXCEPT ![s] = SaveOrder[1]]
    /\ UNCHANGED <<locales, disk, probe>>

\* config.app[f"{llm_provider}_<field>"] = <the field's form value>
AssignStep(s) ==
    /\ pc[s] \in Fields
    /\ app' = Assign(app, job[s].llm_provider, pc[s], job[s].form)
    /\ pc' = [pc EXCEPT ![s] = NextField(pc[s])]
    /\ UNCHANGED <<locales, ui, disk, session_state, view, job, hist, probe>>

\* config.save()
ConfigSaveStep(s) ==
    /\ pc[s] = "config.save"
    /\ disk' = ConfigSave(app, ui)
    /\ pc' = [pc EXCEPT ![s] = "st.success"]
    /\ UNCHANGED <<locales, app, ui, session_state, view, job, hist, probe>>

\* st.success(...), then the rest of the script.
FinishSave(s) ==
    /\ pc[s] = "st.success"
    /\ LET t == Suffix(session_state[s], NoInput)
       IN  /\ session_state' = [session_state EXCEPT ![s] = t.session_state]
           /\ view' = [view EXCEPT ![s] =
                         [@ EXCEPT !.buttons = t.buttons,
                                   !.success = SavedMessage(app, job[s].llm_provider,
                                                            job[s].form)]]
           /\ hist' = [hist EXCEPT ![s] = History(@, job[s], TRUE)]
    /\ pc' = [pc EXCEPT ![s] = "idle"]
    /\ UNCHANGED <<locales, app, ui, disk, job, probe>>

SelectConcProvider(s, i) ==
    /\ llm_providers[i] \in ConcProviders
    /\ SelectProvider(s, i)

InitConc == Start(SettingsTable, EmptyDict, EmptyDict)

NextConc ==
    \E s \in Sessions :
        \/ FirstRender(s)
        \/ \E i \in 1..Len(llm_providers) : SelectConcProvider(s, i)
        \/ BeginSave(s, ConcForm(s))
        \/ AssignStep(s)
        \/ ConfigSaveStep(s)
        \/ FinishSave(s)

SpecConc == InitConc /\ [][NextConc]_vars

-----------------------------------------------------------------------------
(* tr as a function of the locale table, the active language and the key *)

TrLanguages == {zh, en, en_US, zh_CN_spaced}

\* The session's ui_language comes from config.ui, as on a first run.
InitTr ==
    \E lcs \in LocaleTables, lang \in TrLanguages, key \in TrKeys :
        /\ Loaded(lcs, EmptyDict, "language" :> lang)
        /\ Idle
        /\ session_state = [s \in Sessions |-> InitSession(EmptyDict, "language" :> lang)]
        /\ probe = [call |-> "tr", key |-> key, done |-> FALSE, out |-> ""]

CallTr(s) ==
    /\ probe.call = "tr" /\ ~ probe.done
    /\ probe' = [probe EXCEPT !.out = tr(s, probe.key), !.done = TRUE]
    /\ UNCHANGED <<locales, app, ui, disk, session_state, view, pc, job, hist>>

NextTr == CallTr(1)

SpecTr == InitTr /\ [][NextTr]_vars

-----------------------------------------------------------------------------
(* ConfigModel and validate_config *)

\* Values a payload can give a field: a string, None, or a value that is
\* neither (a list).
Str(x) == [type |-> "str", value |-> x]
None == [type |-> "NoneType", value |-> ""]
List == [type |-> "list", value |-> ""]

\* api_key: str = Field(...): required, a string.
RequiredStrWithDefault(data, f) ==
    IF f \notin DOMAIN data THEN << Str("") >>
    ELSE IF data[f].type = "str" THEN << data[f] >> ELSE << >>

RequiredStr(data, f) ==
    IF f \in DOMAIN data /\ data[f].type = "str" THEN << data[f] >> ELSE << >>

\* Optional[str] = Field(None): absent gives None; None or a string is kept.
OptionalStr(data, f) ==
    IF f \notin DOMAIN data THEN << None >>
    ELSE IF data[f].type \in {"str", "NoneType"} THEN << data[f] >> ELSE << >>

OptionalFields == Fields \ {"api_key"}

\* ConfigModel(**config_data): the model, or ValidationError.  Keys that are
\* no field of the model are ignored.
ConfigModel(data) ==
    LET got == [f \in Fields |->
                  IF f = "api_key" THEN RequiredStr(data, f) ELSE OptionalStr(data, f)]
    IN  IF \E f \in Fields : got[f] = << >>
        THEN [error |-> "ValidationError"]
        ELSE [error |-> "", model |-> [f \in Fields |-> got[f][1]]]

\* validate_config: the model, or None with the error logged.
validate_config(data) ==
    LET made == ConfigModel(data)
    IN  IF made.error = ""
        THEN [result |-> << made.model >>, logged |-> FALSE, raised |-> ""]
        ELSE IF made.error = "ValidationError"
        THEN [result |-> << >>, logged |-> TRUE, raised |-> ""]
        ELSE [result |-> << >>, logged |-> FALSE, raised |-> made.error]

\* The script's own payload.
config_data ==
    [f \in Fields |->
        Str(CASE f = "api_key" -> "example_key"
              [] f = "secret_key" -> "example_secret"
              [] f = "base_url" -> "http://example.com"
              [] f = "model_name" -> "example_model"
              [] f = "account_id" -> "example_account")]

PayloadValues == { Str("x"), None, List }

Payloads ==
    { config_data } \cup
    UNION { [keys -> PayloadValues] : keys \in SUBSET {"api_key", "secret_key", "base_url", "region"} }
    \cup [{"api_key", "model_name", "account_id"} -> {Str("y"), None}]

InitValidate ==
    \E data \in Payloads :
        /\ Loaded(SettingsTable, EmptyDict, EmptyDict)
        /\ Idle
        /\ session_state = [s \in Sessions |-> EmptyDict]
        /\ probe = [call |-> "validate_config", data |-> data, done |-> FALSE,
                    out |-> validate_config(config_data), message |-> ""]

\* validated_config = validate_config(...), and the message written for it.
CallValidate ==
    /\ probe.call = "validate_config" /\ ~ probe.done
    /\ LET out == validate_config(probe.data)
       IN  probe' = [probe EXCEPT
                       !.out = out, !.done = TRUE,
                       !.message = IF out.result # << >>
                                   THEN "Configuration is valid and loaded."
                                   ELSE "Configuration validation failed."]
    /\ UNCHANGED <<locales, app, ui, disk, session_state, view, pc, job, hist>>

NextValidate == CallValidate

SpecValidate == InitValidate /\ [][NextValidate]_vars

-----------------------------------------------------------------------------
(* Properties *)

SpecialProviders == {"ollama", "openai", "azure", "moonshot"}

SessionKeys == {"video_subject", "video_script", "video_terms", "ui_language"}

\* C1: once the session has pressed Save on openai with form values
\* (api_key, base_url, model_name) = (k, u, m), every later run that has
\* openai selected -- after switching to azure and back, with or without a
\* Save on azure in between -- reads exactly (k, u, m) from the config store
\* into the form.
C1_RoundTripRestores ==
    ( /\ view[1].panel
      /\ view[1].llm_provider = "openai"
      /\ view[1].input # "save"
      /\ hist[1].openai # << >> )
    => \A f \in {"api_key", "base_url", "model_name"} :
           view[1].seed[f] = hist[1].openai[1][f]

\* C1's case: K1 saved on openai, then K2 saved on azure, then openai
\* selected again and K1 read back.
C1_BackOnOpenAI ==
    /\ view[1].input = "provider"
    /\ view[1].llm_provider = "openai"
    /\ hist[1].openai = << K1 >>
    /\ hist[1].azure
    /\ Get(app, "azure_api_key", "") = K2["api_key"]
    /\ view[1].seed = K1

\* C2: a run that presses Save with provider p selected sets the five keys
\* p_api_key, p_secret_key, p_base_url, p_model_name, p_account_id to the
\* form's values, in config.app and in the config file, and leaves every
\* other provider's credential keys as they were, in both.
C2_SaveWritesOnlyActiveProvider ==
    [][ view'[1].success =>
          LET p == view'[1].llm_provider
          IN  /\ \A f \in Fields :
                    /\ Lookup(app', Key(p, f)) = << view'[1].form[f] >>
                    /\ Lookup(disk'.app, Key(p, f)) = << view'[1].form[f] >>
              /\ \A q \in Providers \ {p} : \A f \in Fields :
                    /\ Lookup(app', Key(q, f)) = Lookup(app, Key(q, f))
                    /\ Lookup(disk'.app, Key(q, f)) = Lookup(disk.app, Key(q, f))
              /\ DOMAIN app' \subseteq DOMAIN app \cup CredentialKeys(p) \cup {"llm_provider"}
      ]_vars

\* C2's case: Save pressed on azure while openai holds other credentials.
C2_SavedOnAzureBesideOpenAI ==
    /\ view[1].success
    /\ view[1].llm_provider = "azure"
    /\ view[1].form = K2
    /\ SavedFields(app, "openai") = K1
    /\ SavedFields(disk.app, "azure") = K2

\* C3: a Save is confirmed whatever the other session did meanwhile -- every
\* run that pressed Save ends with the success message -- and once no Save
\* handler is running the config file holds the shared store's credentials,
\* those of whoever wrote last.
C3_SaveAlwaysConfirmed ==
    /\ \A s \in Sessions :
          (pc[s] = "idle" /\ view[s].input = "save") => view[s].success
    /\ (\A s \in Sessions : pc[s] = "idle") =>
          \A p \in Providers : SavedFields(disk.app, p) = SavedFields(app, p)

\* C3's case: both sessions pressed Save, both see the success message, and
\* the config file does not hold what one of them saved.
C3_LostUpdate ==
    /\ \A s \in Sessions :
          pc[s] = "idle" /\ view[s].success /\ hist[s].last # << >>
    /\ \E s \in Sessions :
          SavedFields(disk.app, hist[s].last[1].llm_provider) # hist[s].last[1].form

\* C4: after a session's first run, before any input, video_subject,
\* video_script and video_terms are "" and ui_language is set; and after any
\* run the four keys are in the session state.
C4_SessionKeysStay ==
    \A s \in Sessions :
        view[s].rendered =>
            /\ SessionKeys \subseteq DOMAIN session_state[s]
            /\ view[s].input = "first" =>
                  \A k \in VideoKeys : session_state[s][k] = ""

\* C4's case: the user has typed a script; the keys are all still there.
C4_EditedSession ==
    /\ view[1].input = "video"
    /\ session_state[1]["video_script"] = "text"
    /\ session_state[1]["video_terms"] = ""
    /\ "ui_language" \in DOMAIN session_state[1]

\* C5: tr(key) is the text the active language's Translation table gives
\* the key; it is the key itself when the table lacks the key, when the
\* locale has no Translation table, and when the active language is no
\* locale of the table; it never raises.
C5_TrLookupOrKey ==
    probe.done =>
        LET lang == session_state[1]["ui_language"]
            has  == {i \in 1..Len(locales) :
                        /\ locales[i].code = lang
                        /\ locales[i].hasTranslation
                        /\ probe.key \in DOMAIN locales[i].Translation}
        IN  /\ probe.out # "KeyError"
            /\ \A i \in has : probe.out = locales[i].Translation[probe.key]
            /\ has = {} => probe.out = probe.key

\* C5's case: a key of the active locale's table, translated.
C5_Translated ==
    /\ probe.done
    /\ session_state[1]["ui_language"] = zh
    /\ probe.key = "Save"
    /\ probe.out = "zh:Save"

\* C6: in every run Generate Video and Update Script are rendered exactly
\* when video_script is non-empty after the script widget, and Cancel always.
C6_ButtonsFollowScript ==
    \A s \in Sessions :
        view[s].rendered =>
            /\ "cancel" \in view[s].buttons
            /\ "generate_video" \in view[s].buttons <=> session_state[s]["video_script"] # ""
            /\ "update_script" \in view[s].buttons <=> session_state[s]["video_script"] # ""

\* C6's case: a script and no subject: all three buttons.
C6_ScriptWithoutSubject ==
    /\ view[1].rendered
    /\ session_state[1]["video_script"] = "text"
    /\ session_state[1]["video_subject"] = ""
    /\ view[1].buttons = {"generate_video", "update_script", "cancel"}

Carried(data, model) ==
    \A f \in Fields : model[f] = IF f \in DOMAIN data THEN data[f] ELSE None

\* C7 as stated: a payload with api_key present validates to a model
\* carrying its values; one without api_key gives None and a logged error;
\* nothing is raised.
C7_PresentApiKeyValidates ==
    probe.done =>
        /\ "api_key" \in DOMAIN probe.data =>
              /\ probe.out.result # << >>
              /\ Carried(probe.data, probe.out.result[1])
        /\ "api_key" \notin DOMAIN probe.data =>
              probe.out.result = << >> /\ probe.out.logged
        /\ probe.out.raised = ""

WellTyped(data) ==
    /\ "api_key" \in DOMAIN data /\ data["api_key"].type = "str"
    /\ \A f \in OptionalFields \cap DOMAIN data : data[f].type \in {"str", "NoneType"}

\* C7, amended: a payload whose api_key is present and a string, and whose
\* optional fields are each absent, None or a string, validates to a model
\* carrying its values (None for an absent field); any other payload -- api_key
\* omitted, or a field of another type -- gives None, a logged error and the
\* failure message; nothing is raised.
C7_ValidateFailsClosed ==
    probe.done =>
        /\ WellTyped(probe.data) =>
              /\ probe.out.result # << >>
              /\ Carried(probe.data, probe.out.result[1])
              /\ probe.message = "Configuration is valid and loaded."
        /\ ~ WellTyped(probe.data) =>
              /\ probe.out.result = << >>
              /\ probe.out.logged
              /\ probe.message = "Configuration validation failed."
        /\ probe.out.raised = ""

\* C7's case: api_key omitted, another field given.
C7_ApiKeyOmitted ==
    /\ probe.done
    /\ "api_key" \notin DOMAIN probe.data
    /\ "secret_key" \in DOMAIN probe.data
    /\ probe.out.result = << >>
    /\ probe.out.logged

\* C8 as stated: with ollama, openai, azure or moonshot selected and no base
\* URL and no model name saved for it, the form's base URL and model name are
\* pre-populated with defaults and the provider's help text is shown.
C8_SpecialProvidersPrepopulate ==
    ( /\ view[1].panel
      /\ view[1].input # "save"
      /\ view[1].llm_provider \in SpecialProviders
      /\ Get(app, Key(view[1].llm_provider, "base_url"), "") = ""
      /\ Get(app, Key(view[1].llm_provider, "model_name"), "") = "" )
    => /\ view[1].seed["base_url"] # ""
       /\ view[1].seed["model_name"] # ""
       /\ view[1].tips # ""

\* C9: selecting a provider reads its saved fields from the config store into
\* the form (for ollama, a default where base URL or model name is empty);
\* a further run with the same selection and no input leaves config.app,
\* config.ui, the config file and the form as they were.
C9_ReselectIsNoOp ==
    [][ /\ ( /\ view[1].panel
             /\ view[1].input \in {"first", "provider", "rerun"}
             /\ view'[1].input = "rerun" )
           => /\ app' = app /\ ui' = ui /\ disk' = disk
              /\ view'[1].llm_provider = view[1].llm_provider
              /\ view'[1].seed = view[1].seed
              /\ view'[1].form = view[1].form
        /\ view'[1].input = "provider"
           => LET p == view'[1].llm_provider
              IN  \A f \in Fields :
                     \/ view'[1].form[f] = Get(app', Key(p, f), "")
                     \/ /\ p = "ollama" /\ f \in {"base_url", "model_name"}
                        /\ Get(app', Key(p, f), "") = ""
      ]_vars

\* C9's case: ollama selected, run again: the default is in the form and
\* nothing of ollama's is in the store.
C9_RerunOnOllama ==
    /\ view[1].input = "rerun"
    /\ view[1].llm_provider = "ollama"
    /\ view[1].form["model_name"] = "qwen:7b"
    /\ CredentialKeys("ollama") \cap DOMAIN app = {}
    /\ SavedFields(app, "openai") = K1

\* C10 as stated: after a run that shows the settings panel with a non-empty
\* locale table, the session's ui_language is a code of the table and is
\* config.ui["language"].
C10_LanguageIsLocaleCode ==
    \A s \in Sessions :
        (view[s].rendered /\ view[s].panel /\ Len(locales) > 0)
        => /\ session_state[s]["ui_language"] \in LocaleCodes(locales)
           /\ Lookup(ui, "language") = << session_state[s]["ui_language"] >>

====
